---- MODULE Spec2Model ----
(***************************************************************************)
(* Password-reset token scheme of exchange_api/api/views.py:               *)
(* PasswordResetRequest (post, generate_token) and PasswordResetConfirm    *)
(* (get, post, check_token), over the users table and the wall clock.      *)
(*                                                                         *)
(* Strings are sequences of one-character strings, so that formatting,     *)
(* concatenation and base64 are computed and not assumed.                  *)
(***************************************************************************)
EXTENDS Integers, Sequences, FiniteSets, TLC

VARIABLES
    users,    \* the users table: primary key -> row [id, email, password]
    now,      \* the wall clock, seconds since the epoch
    outbox,   \* the mails handed to send_mail, in order
    posts,    \* reset-confirm POST requests between their SELECT and their UPDATE
    saved,    \* the password changes written, in order: row id and token used
    resp,     \* the response of the handler that returned last
    issued,   \* the last direct call of generate_token and its result
    verdict   \* the last direct call of check_token and its result

vars == <<users, now, outbox, posts, saved, resp, issued, verdict>>

----------------------------------------------------------------------------
(* Program constants *)

Hour == 3600
Window == 24
MinPasswordLen == 8

(* Bounds of the model *)

StartHour == 481916      \* the clock starts in the hour bucket StartHour * Hour
MaxHours == 25           \* the clock stops MaxHours hours after the start
IssueHours == 1          \* generate_token is called directly in the first IssueHours hours
MaxMails == 1            \* reset mails sent in one behaviour
MaxPosts == 2            \* reset-confirm POSTs that reach the write in one behaviour

T0 == StartHour * Hour

----------------------------------------------------------------------------
(* Text *)

Digits == <<"0", "1", "2", "3", "4", "5", "6", "7", "8", "9">>

RECURSIVE DecNat(_)
DecNat(n) ==
    IF n < 10 THEN <<Digits[n + 1]>>
    ELSE DecNat(n \div 10) \o <<Digits[(n % 10) + 1]>>

\* str(int), as an f-string formats an integer field
Dec(n) == IF n < 0 THEN <<"-">> \o DecNat(-n) ELSE DecNat(n)

\* A lone surrogate: a character str.encode() (UTF-8) raises on
Surrogate == "<U+D800>"

Encodable(s) == \A i \in 1..Len(s) : s[i] # Surrogate

\* An outcome of a call: a returned value, or an exception
Return(v) == [exc |-> FALSE, val |-> v]
Raise == [exc |-> TRUE, val |-> <<>>]

\* A reading of timezone.now().timestamp(): a time, or the call failing
Reading(t) == [ok |-> TRUE, t |-> t]
ClockError == [ok |-> FALSE, t |-> 0]

----------------------------------------------------------------------------
(* Base64 and primary keys *)

\* The printable ASCII characters, from code 32 (space) to code 126; the
\* quote, the backslash and the backtick are written by name
Printable == <<
    " ", "!", "<quote>", "#", "$", "%", "&", "'", "(", ")", "*", "+", ",",
    "-", ".", "/", "0", "1", "2", "3", "4", "5", "6", "7", "8", "9",
    ":", ";", "<", "=", ">", "?", "@", "A", "B", "C", "D", "E", "F",
    "G", "H", "I", "J", "K", "L", "M", "N", "O", "P", "Q", "R", "S",
    "T", "U", "V", "W", "X", "Y", "Z", "[", "<backslash>", "]", "^", "_", "<backtick>",
    "a", "b", "c", "d", "e", "f", "g", "h", "i", "j", "k", "l", "m",
    "n", "o", "p", "q", "r", "s", "t", "u", "v", "w", "x", "y", "z",
    "{", "|", "}", "~">>

\* ord() of a character of a str(int): a digit or a minus sign
Ord(c) == CHOOSE b \in 32..126 : Printable[b - 31] = c

\* bytes.decode() of one byte: no byte above 127 is valid UTF-8 on its own
Chr(b) == IF b \in 32..126 THEN Printable[b - 31] ELSE "<ctl>"

\* The URL-safe base64 alphabet
Alphabet == <<
    "A", "B", "C", "D", "E", "F", "G", "H", "I", "J", "K", "L", "M",
    "N", "O", "P", "Q", "R", "S", "T", "U", "V", "W", "X", "Y", "Z",
    "a", "b", "c", "d", "e", "f", "g", "h", "i", "j", "k", "l", "m",
    "n", "o", "p", "q", "r", "s", "t", "u", "v", "w", "x", "y", "z",
    "0", "1", "2", "3", "4", "5", "6", "7", "8", "9", "-", "_">>

\* The value of a base64 character; b64decode also reads '+' and '/', and
\* drops every other character (-1)
B64Val(c) ==
    IF \E i \in 1..64 : Alphabet[i] = c
    THEN (CHOOSE i \in 1..64 : Alphabet[i] = c) - 1
    ELSE IF c = "+" THEN 62 ELSE IF c = "/" THEN 63 ELSE -1

RECURSIVE B64EncodeBytes(_)
B64EncodeBytes(b) ==
    IF Len(b) = 0 THEN <<>>
    ELSE IF Len(b) = 1 THEN
        <<Alphabet[(b[1] \div 4) + 1], Alphabet[((b[1] % 4) * 16) + 1]>>
    ELSE IF Len(b) = 2 THEN
        <<Alphabet[(b[1] \div 4) + 1],
          Alphabet[((b[1] % 4) * 16 + b[2] \div 16) + 1],
          Alphabet[((b[2] % 16) * 4) + 1]>>
    ELSE
        <<Alphabet[(b[1] \div 4) + 1],
          Alphabet[((b[1] % 4) * 16 + b[2] \div 16) + 1],
          Alphabet[((b[2] % 16) * 4 + b[3] \div 64) + 1],
          Alphabet[(b[3] % 64) + 1]>> \o B64EncodeBytes(SubSeq(b, 4, Len(b)))

\* The key put in the link as it is, not encoded
urlsafe_base64_encode_plain(pk) == Dec(pk)

\* urlsafe_base64_encode(force_bytes(pk)): the base64 of str(pk), '=' stripped
urlsafe_base64_encode(pk) ==
    LET d == Dec(pk)
    IN  B64EncodeBytes([i \in 1..Len(d) |-> Ord(d[i])])

RECURSIVE Sextets(_)
Sextets(s) ==
    IF Len(s) = 0 THEN <<>>
    ELSE IF B64Val(s[1]) < 0 THEN Sextets(Tail(s))
    ELSE <<B64Val(s[1])>> \o Sextets(Tail(s))

RECURSIVE B64DecodeSextets(_)
B64DecodeSextets(x) ==
    IF Len(x) < 2 THEN <<>>
    ELSE IF Len(x) = 2 THEN <<x[1] * 4 + x[2] \div 16>>
    ELSE IF Len(x) = 3 THEN
        <<x[1] * 4 + x[2] \div 16, (x[2] % 16) * 16 + x[3] \div 4>>
    ELSE
        <<x[1] * 4 + x[2] \div 16, (x[2] % 16) * 16 + x[3] \div 4,
          (x[3] % 4) * 64 + x[4]>> \o B64DecodeSextets(SubSeq(x, 5, Len(x)))

\* urlsafe_base64_decode(s): s padded with len(s) % 4 '=' and decoded; a
\* binascii error is raised as ValueError. Strings holding '=' are not modelled.
urlsafe_base64_decode(s) ==
    LET x == Sextets(s)
        r == Len(x) % 4
        pads == Len(s) % 4
    IN  IF r = 1 \/ (r = 2 /\ pads < 2) \/ (r = 3 /\ pads < 1) THEN Raise
        ELSE Return(B64DecodeSextets(x))

\* force_str(bytes): UTF-8 decoding; a byte above 127 is taken to raise
\* (DjangoUnicodeDecodeError, a ValueError)
force_str(bytes) ==
    IF \E i \in 1..Len(bytes) : bytes[i] > 127 THEN Raise
    ELSE Return([i \in 1..Len(bytes) |-> Chr(bytes[i])])

IsDigit(c) == \E i \in 1..10 : Digits[i] = c

RECURSIVE ParseNat(_)
ParseNat(s) ==
    IF Len(s) = 0 THEN 0
    ELSE 10 * ParseNat(SubSeq(s, 1, Len(s) - 1))
           + (CHOOSE i \in 1..10 : Digits[i] = s[Len(s)]) - 1

\* The conversion of a pk lookup value to the integer key: int(text), which
\* raises ValueError on text that is not a run of digits
ToPk(text) ==
    IF Len(text) > 0 /\ \A i \in 1..Len(text) : IsDigit(text[i])
    THEN Return(ParseNat(text)) ELSE Raise

----------------------------------------------------------------------------
(* The token functions *)

timestamp_hours(timestamp) == timestamp - (timestamp % Hour)

\* The canonical string with the password hash left out
token_string_no_password(user, bucket) ==
    user.email \o <<"-">> \o Dec(user.id) \o <<"-">> \o Dec(bucket)

token_string(user, bucket) ==
    user.email \o <<"-">> \o Dec(user.id) \o <<"-">> \o user.password
        \o <<"-">> \o Dec(bucket)

\* sha256(s.encode()).hexdigest()[:32]: the digest is taken as injective on
\* the strings hashed, and is told apart from a plain string by its marker.
Sha256Hex32(s) == <<"sha256:">> \o s

\* generate_token with the timestamp left unrounded (line 115 dropped)
generate_token_unrounded(user, clock) ==
    IF ~clock.ok THEN Raise
    ELSE LET s == token_string(user, clock.t)
         IN  IF Encodable(s) THEN Return(Sha256Hex32(s)) ELSE Raise

\* PasswordResetRequest.generate_token: no try block, an exception propagates
generate_token(user, clock) ==
    IF ~clock.ok THEN Raise
    ELSE LET s == token_string(user, timestamp_hours(clock.t))
         IN  IF Encodable(s) THEN Return(Sha256Hex32(s)) ELSE Raise

\* The loop of check_token over range(n)
check_token_range(user, token, clock, n) ==
    IF ~clock.ok THEN Raise
    \* encode() raises in the first iteration or in none: the digits of
    \* check_time always encode
    ELSE IF n > 0 /\ ~Encodable(token_string(user, timestamp_hours(clock.t)))
         THEN Raise
    ELSE Return(\E hours \in 0..(n - 1) :
                   token = Sha256Hex32(
                       token_string(user, timestamp_hours(clock.t) - hours * Hour)))

\* The loop running over range(23): one bucket too few
check_token_try_23(user, token, clock) == check_token_range(user, token, clock, Window - 1)

\* The loop running over range(25): one bucket too many
check_token_try_25(user, token, clock) == check_token_range(user, token, clock, Window + 1)

\* The body of the try block of PasswordResetConfirm.check_token
check_token_try(user, token, clock) == check_token_range(user, token, clock, Window)

\* check_token without its except clause
check_token_uncaught(user, token, clock) == check_token_try(user, token, clock)

\* PasswordResetConfirm.check_token: except Exception: return False
check_token(user, token, clock) ==
    LET r == check_token_try(user, token, clock)
    IN  IF r.exc THEN Return(FALSE) ELSE r

----------------------------------------------------------------------------
(* The users table *)

\* Two rows whose emails and ids differ. Emails and stored password strings
\* may contain '-' (CharField(max_length=128) accepts any text).
Email1 == <<"u", "@", "x">>
Email2 == <<"u", "@", "x", "-", "1">>
Row1 == [id |-> 1, email |-> Email1, password |-> <<"7", "-", "p">>]
Row2 == [id |-> 7, email |-> Email2, password |-> <<"p">>]

InitialUsers == (1 :> Row1) @@ (7 :> Row2)

\* A record check_token can be handed whose email cannot be encoded
BadUser == [id |-> 3, email |-> <<"u", Surrogate>>, password |-> <<"p">>]

Garbage == <<"0">>       \* a presented token that no digest equals

\* No direct call made yet
NoToken == [user |-> Row1, at |-> 0, since |-> 0, out |-> Raise, called |-> FALSE]
NoVerdict == [user |-> Row1, token |-> Garbage, clock |-> ClockError,
              out |-> Raise, called |-> FALSE]

----------------------------------------------------------------------------
(* The handlers: Spec *)

\* A submitted form field: request.POST.get(name) is None or a text
Missing == [present |-> FALSE, text |-> <<>>]
Field(text) == [present |-> TRUE, text |-> text]

Pw7 == <<"s", "e", "c", "r", "e", "t", "1">>
Pw8 == <<"s", "e", "c", "r", "e", "t", "1", "2">>

FormFields == {Missing, Field(<<>>), Field(Pw7), Field(Pw8)}

\* The uidb64 path parameters tried: the encoded keys of both rows and of no
\* row, the encoding of "x", and a text that is not base64
UidInputs ==
    {urlsafe_base64_encode(1), urlsafe_base64_encode(7), urlsafe_base64_encode(9),
     <<"e", "A">>, <<"A">>}

\* The emails submitted: that of the first row, and one no row has
EmailInputs == {Email1, <<"n", "@", "x">>}

\* The token path parameters tried: every token mailed so far, and garbage
TokenInputs == {Garbage} \cup {outbox[i].token : i \in 1..Len(outbox)}

\* not x, for a form field
Falsy(f) == ~f.present \/ Len(f.text) = 0

\* User.set_password: the hash stored by the n-th save, a salted hash that
\* no earlier save stored
set_password(user, raw, n) == [user EXCEPT !.password = <<"h", "a", "s", "h">> \o Dec(n)]

\* uid = force_str(urlsafe_base64_decode(uidb64)); User.objects.get(pk=uid)
\* cause: which step raised, if any; every exception raised is one of those
\* the handlers catch
get_user(table, uidb64) ==
    LET bytes == urlsafe_base64_decode(uidb64)
    IN  IF bytes.exc THEN [cause |-> "decode", user |-> Row1]
        ELSE LET uid == force_str(bytes.val)
             IN  IF uid.exc THEN [cause |-> "decode", user |-> Row1]
                 ELSE LET pk == ToPk(uid.val)
                      IN  IF pk.exc THEN [cause |-> "pk", user |-> Row1]
                          ELSE IF pk.val \notin DOMAIN table
                               THEN [cause |-> "missing", user |-> Row1]
                          ELSE [cause |-> "found", user |-> table[pk.val]]

\* The try block shared by get and post up to the token check: the cause the
\* link is refused for, or "valid"
link_check(table, uidb64, token, clock) ==
    LET got == get_user(table, uidb64)
    IN  IF got.cause # "found" THEN got
        ELSE LET ok == check_token(got.user, token, clock)
             IN  IF ok.exc THEN [cause |-> "raised", user |-> got.user]
                 ELSE IF ok.val THEN [cause |-> "valid", user |-> got.user]
                 ELSE [cause |-> "token", user |-> got.user]

\* render(request, template, context): the context is the response
InvalidLink == [validlink |-> FALSE]
FormPage(uidb64, token) == [validlink |-> TRUE, uidb64 |-> uidb64, token |-> token]
ErrorPage(uidb64, token, error) ==
    [validlink |-> TRUE, error |-> error, token |-> token, uidb64 |-> uidb64]
SuccessPage == [validlink |-> TRUE, success |-> TRUE]

\* A response, with what the handler worked on: the request's parameters,
\* the cause decided and the row loaded
Response(op, arg, status, page, cause, row) ==
    [op |-> op, arg |-> arg, status |-> status, page |-> page, cause |-> cause,
     row |-> row]

NoResponse == Response("none", <<>>, 0, InvalidLink, "none", Row1)

\* The page of a refused link when a missing user is answered 404
refused_404(cause) == IF cause = "missing" THEN [error |-> "User not found"] ELSE InvalidLink

\* The page of a refused link: line 136 and line 180, whatever the cause
refused(cause) == InvalidLink

\* PasswordResetConfirm.get
confirm_get(table, uidb64, token, clock) ==
    LET link == link_check(table, uidb64, token, clock)
        arg  == [uidb64 |-> uidb64, token |-> token]
    IN  IF link.cause = "raised"
        THEN Response("get", arg, 500, InvalidLink, link.cause, link.user)
        ELSE IF link.cause = "valid"
        THEN Response("get", arg, 200, FormPage(uidb64, token), link.cause, link.user)
        ELSE Response("get", arg, 200, refused(link.cause), link.cause, link.user)

\* The validation of the two password fields without the length check
password_error_no_min(password1, password2) ==
    IF Falsy(password1) \/ Falsy(password2) THEN "Please enter both passwords"
    ELSE IF password1 # password2 THEN "Passwords do not match"
    ELSE "none"

\* The validation of the two password fields, lines 146 to 168
password_error(password1, password2) ==
    IF Falsy(password1) \/ Falsy(password2) THEN "Please enter both passwords"
    ELSE IF password1 # password2 THEN "Passwords do not match"
    ELSE IF Len(password1.text) < MinPasswordLen THEN "too short"
    ELSE "none"

HandlerStart == T0 + (Hour \div 2)

Init ==
    /\ users = InitialUsers
    /\ now = HandlerStart
    /\ outbox = <<>>
    /\ posts = <<>>
    /\ saved = <<>>
    /\ resp = NoResponse
    /\ issued = NoToken
    /\ verdict = NoVerdict

\* Half a window passes
Tick ==
    /\ resp = NoResponse
    /\ now + (Window \div 2) * Hour <= T0 + MaxHours * Hour
    /\ now' = now + (Window \div 2) * Hour
    /\ UNCHANGED <<users, outbox, posts, saved, resp, issued, verdict>>

\* PasswordResetRequest.post; delivered: whether send_mail returns or raises
ResetRequest(email, delivered) ==
    /\ resp = NoResponse
    /\ IF \A id \in DOMAIN users : users[id].email # email
       THEN /\ resp' = Response("reset", email, 404, [error |-> "User not found"],
                                "missing", Row1)
            /\ UNCHANGED outbox
       ELSE LET user  == users[CHOOSE id \in DOMAIN users : users[id].email = email]
                token == generate_token(user, Reading(now))
                uid   == urlsafe_base64_encode(user.id)
            IN  IF token.exc
                THEN /\ resp' = Response("reset", email, 500, [error |-> "Server Error"],
                                         "raised", user)
                     /\ UNCHANGED outbox
                ELSE /\ Len(outbox) < MaxMails
                     /\ outbox' = Append(outbox,
                                    [to |-> email, uid |-> uid, token |-> token.val,
                                     user |-> user, at |-> now])
                     /\ resp' = IF delivered
                                THEN Response("reset", email, 200,
                                         [message |-> "Password reset link sent"],
                                         "sent", user)
                                ELSE Response("reset", email, 500,
                                         [error |-> "Server Error"], "mail", user)
    /\ UNCHANGED <<users, now, posts, saved, issued, verdict>>

ConfirmGet(uidb64, token) ==
    /\ resp = NoResponse
    /\ resp' = confirm_get(users, uidb64, token, Reading(now))
    /\ UNCHANGED <<users, now, outbox, posts, saved, issued, verdict>>

\* PasswordResetConfirm.post up to line 168: the row is read, the token and
\* then the two submitted fields are checked; a request that passes goes on
\* to write the row
PostBegin(uidb64, token) ==
    LET link == link_check(users, uidb64, token, Reading(now))
        arg  == [uidb64 |-> uidb64, token |-> token]
    IN  /\ resp = NoResponse
        /\ IF link.cause = "raised"
           THEN /\ resp' = Response("post", arg, 500, InvalidLink, link.cause, link.user)
                /\ UNCHANGED posts
           ELSE IF link.cause # "valid"
           THEN /\ resp' = Response("post", arg, 200, refused(link.cause), link.cause,
                                    link.user)
                /\ UNCHANGED posts
           ELSE \E password1 \in FormFields, password2 \in FormFields :
                  IF password_error(password1, password2) # "none"
                  THEN /\ resp' = Response("post", arg, 200,
                                      ErrorPage(uidb64, token,
                                                password_error(password1, password2)),
                                      link.cause, link.user)
                       /\ UNCHANGED posts
                  ELSE /\ Len(posts) + Len(saved) < MaxPosts
                       /\ posts' = Append(posts,
                                       [uidb64 |-> uidb64, token |-> token,
                                        password1 |-> password1, password2 |-> password2,
                                        user |-> link.user, checked_at |-> now])
                       /\ UNCHANGED resp
        /\ UNCHANGED <<users, now, outbox, saved, issued, verdict>>

\* PasswordResetConfirm.post, lines 170 to 175: the row as loaded, with the
\* new hash, is written back and the success page rendered
PostSave(i) ==
    LET p   == posts[i]
        row == set_password(p.user, p.password1.text, Len(saved) + 1)
    IN  /\ resp = NoResponse
        /\ users' = [users EXCEPT ![row.id] = row]
        /\ posts' = [j \in 1..(Len(posts) - 1) |-> IF j < i THEN posts[j] ELSE posts[j + 1]]
        /\ saved' = Append(saved, [id |-> row.id, token |-> p.token])
        /\ resp' = Response("post", [uidb64 |-> p.uidb64, token |-> p.token], 200,
                            SuccessPage, "valid", p.user)
        /\ UNCHANGED <<now, outbox, issued, verdict>>

\* The response is returned to the client; the handlers' responses are looked
\* at one at a time
Deliver ==
    /\ resp # NoResponse
    /\ resp' = NoResponse
    /\ UNCHANGED <<users, now, outbox, posts, saved, issued, verdict>>

Next ==
    \/ Tick
    \/ Deliver
    \/ \E email \in EmailInputs, delivered \in BOOLEAN : ResetRequest(email, delivered)
    \/ \E uidb64 \in UidInputs, token \in TokenInputs : ConfirmGet(uidb64, token)
    \/ \E uidb64 \in UidInputs, token \in TokenInputs : PostBegin(uidb64, token)
    \/ \E i \in 1..Len(posts) : PostSave(i)

Spec == Init /\ [][Next]_vars

----------------------------------------------------------------------------
(* Claims about the handlers, under Spec *)

IsConfirm(r) == r.op \in {"get", "post"}

\* C2: once the stored password hash of a user differs from the one a token
\* was issued under, a reset-confirm request presenting that token for that
\* user is refused, also inside the token's 24-bucket window: every response
\* to it is the invalid-link page and no such request reaches the write.
C2_Invalidation ==
    \A i \in 1..Len(outbox) :
        LET m == outbox[i]
        IN  /\ (/\ IsConfirm(resp)
                /\ resp.cause \in {"valid", "token"}
                /\ resp.arg.token = m.token
                /\ resp.row.id = m.user.id
                /\ resp.row.password # m.user.password)
                  => resp.page = InvalidLink
            /\ \A j \in 1..Len(posts) :
                  (posts[j].token = m.token /\ posts[j].user.id = m.user.id)
                      => posts[j].user.password = m.user.password

C2_Witness ==
    \E i \in 1..Len(outbox) :
        LET m == outbox[i]
        IN  /\ IsConfirm(resp)
            /\ resp.cause = "token"
            /\ resp.arg.token = m.token
            /\ resp.row.id = m.user.id
            /\ resp.row.password # m.user.password
            /\ now < m.at - (m.at % 3600) + 24 * 3600
            /\ Len(saved) > 0

\* C5: a reset-confirm request (GET or POST) that fails, whatever the cause
\* (uidb64 that does not decode, key that is no number, no such user, token
\* refused), gets the same response: status 200 and the page rendered with
\* validlink False and nothing else; check_token raises in no request.
C5_NonDisclosure ==
    IsConfirm(resp) =>
        /\ resp.cause # "raised"
        /\ resp.cause \in {"decode", "pk", "missing", "token"}
              => (resp.status = 200 /\ resp.page = [validlink |-> FALSE])

C5_Witness ==
    /\ resp.op = "post"
    /\ resp.cause = "missing"
    /\ resp.page = [validlink |-> FALSE]

\* C7: the users table changes only by a reset-confirm POST whose uidb64
\* decodes to an existing user, whose token check_token accepted for that
\* user, and whose two password fields are present, equal and at least 8
\* characters long; it changes the row of that user only. Every handler
\* that answers anything but the success page leaves the table as it was.
C7_ResetGuard ==
    [][/\ users' # users =>
            \E i \in 1..Len(posts) :
                LET p == posts[i]
                    g == get_user(users, p.uidb64)
                IN  /\ g.cause = "found"
                    /\ g.user.id = p.user.id
                    /\ check_token(p.user, p.token, Reading(p.checked_at)) = Return(TRUE)
                    /\ p.password1.present /\ p.password2.present
                    /\ p.password1.text = p.password2.text
                    /\ Len(p.password1.text) >= 8
                    /\ \A id \in DOMAIN users : id # p.user.id => users'[id] = users[id]
                    /\ resp'.page = SuccessPage
       /\ (resp' # resp /\ resp'.page # SuccessPage) => users' = users
      ]_vars

C7_Witness ==
    /\ resp.op = "post"
    /\ resp.page = SuccessPage
    /\ users[resp.row.id].password # resp.row.password

\* C8: a reset request for an email no user has is answered 404 and hands
\* nothing to the mail sender; a reset request for the email of a user hands
\* the mail sender one mail, to that email, whose link holds the base64 of
\* that user's id and the token generate_token returns for the user at that
\* time; the link passes the reset-confirm check for that user as long as the
\* user's row is unchanged and the clock is inside the 24-bucket window.
C8_RequestStep ==
    ((resp'.op = "reset" /\ resp' # resp) \/ outbox' # outbox) =>
        /\ resp'.op = "reset"
        /\ IF \A id \in DOMAIN users : users[id].email # resp'.arg
           THEN resp'.status = 404 /\ outbox' = outbox
           ELSE /\ Len(outbox') = Len(outbox) + 1
                /\ SubSeq(outbox', 1, Len(outbox)) = outbox
                /\ LET m == outbox'[Len(outbox')]
                       u == users[CHOOSE id \in DOMAIN users : users[id].email = resp'.arg]
                   IN  /\ m.to = resp'.arg
                       /\ get_user(users, m.uid) = [cause |-> "found", user |-> u]
                       /\ Return(m.token) = generate_token(u, Reading(now))
                       /\ link_check(users, m.uid, m.token, Reading(now))
                            = [cause |-> "valid", user |-> u]

C8_LinkValid ==
    \A i \in 1..Len(outbox) :
        LET m == outbox[i]
        IN  (users[m.user.id] = m.user /\ now < m.at - (m.at % 3600) + 24 * 3600)
                => link_check(users, m.uid, m.token, Reading(now))
                     = [cause |-> "valid", user |-> m.user]

C10_SingleUse ==
    \A i \in 1..Len(saved), j \in 1..Len(saved) :
        i < j => ~(saved[i].token = saved[j].token /\ saved[i].id = saved[j].id)

----------------------------------------------------------------------------
(* The token functions called directly: SpecToken *)

\* The instants of the clock: minute 0, minute 1 and minute 59 of every hour
FineOffsets == {0, 60, Hour - 60}

NextInstant(t) ==
    LET h == t - (t % Hour)
    IN  CHOOSE u \in {h + o : o \in FineOffsets \cup {Hour}} :
            /\ u > t
            /\ \A o \in FineOffsets \cup {Hour} : h + o > t => u <= h + o

InitToken ==
    /\ users = InitialUsers
    /\ now \in {T0 + o : o \in FineOffsets}
    /\ outbox = <<>>
    /\ posts = <<>>
    /\ saved = <<>>
    /\ resp = NoResponse
    /\ issued = NoToken
    /\ verdict = NoVerdict

\* The clock moves to the next instant of the grid; a verdict belongs to the
\* instant it was returned at.
TickFine ==
    /\ NextInstant(now) < T0 + (MaxHours + 1) * Hour
    /\ now' = NextInstant(now)
    /\ verdict' = NoVerdict
    /\ UNCHANGED <<users, outbox, posts, saved, resp, issued>>

Generate(id) ==
    /\ now < T0 + IssueHours * Hour
    /\ issued' = [user |-> users[id], at |-> now,
                  \* since: the first of the calls made for this row in this hour
                  since |-> IF /\ issued.called
                               /\ issued.user = users[id]
                               /\ issued.at \div Hour = now \div Hour
                            THEN issued.since ELSE now,
                  out |-> generate_token(users[id], Reading(now)), called |-> TRUE]
    /\ UNCHANGED <<users, now, outbox, posts, saved, resp, verdict>>

Check(user, token, clock) ==
    /\ verdict' = [user |-> user, token |-> token, clock |-> clock,
                   out |-> check_token(user, token, clock), called |-> TRUE]
    /\ UNCHANGED <<users, now, outbox, posts, saved, resp, issued>>

PresentedTokens ==
    {Garbage} \cup (IF issued.called /\ ~issued.out.exc THEN {issued.out.val} ELSE {})

NextToken ==
    \/ TickFine
    \/ \E id \in DOMAIN users : Generate(id)
    \/ \E user \in {users[id] : id \in DOMAIN users} \cup {BadUser},
          token \in PresentedTokens,
          clock \in {Reading(now), ClockError} : Check(user, token, clock)

SpecToken == InitToken /\ [][NextToken]_vars

----------------------------------------------------------------------------
(* Claims about the token functions, under SpecToken *)

\* The last verdict is about the token last issued, presented for the same row
SameUserVerdict ==
    /\ issued.called /\ ~issued.out.exc
    /\ verdict.called /\ verdict.clock.ok
    /\ verdict.user = issued.user
    /\ verdict.token = issued.out.val

\* C1: a token issued at time t, with B = t - (t mod 3600), is accepted for
\* the unchanged user at every time whose hour bucket is B + k*3600 with k in
\* 0..23 and rejected at every time whose bucket is B + k*3600 with k >= 24.
C1_WindowBoundary ==
    SameUserVerdict =>
        LET B  == issued.at - (issued.at % 3600)
            NB == verdict.clock.t - (verdict.clock.t % 3600)
            k  == (NB - B) \div 3600
        IN  /\ k \in 0..23 => verdict.out = Return(TRUE)
            /\ k >= 24 => verdict.out = Return(FALSE)

C1_Witness ==
    /\ SameUserVerdict
    /\ verdict.clock.t - (verdict.clock.t % 3600)
          = issued.at - (issued.at % 3600) + 24 * 3600
    /\ verdict.out = Return(FALSE)

\* C3 as stated: a token issued at minute 59 stops verifying about a minute
\* past the next hour boundary, and a token issued at minute 1 verifies for
\* nearly 25 hours.
C3_Original ==
    SameUserVerdict =>
        LET t == issued.at
            B == t - (t % 3600)
        IN  /\ (t % 3600 = 59 * 60 /\ verdict.clock.t >= B + 3600 + 2 * 60)
                  => verdict.out = Return(FALSE)
            /\ (t % 3600 = 60 /\ verdict.clock.t - t < 25 * 3600 - 2 * 60)
                  => verdict.out = Return(TRUE)

\* C3, amended: measured from the issue time t the token is accepted exactly
\* while fewer than 24*3600 - (t mod 3600) seconds have passed, so a token
\* issued at minute 59 lives 23 h 1 min and one issued at minute 1 lives
\* 23 h 59 min.
C3_Lifetime ==
    (SameUserVerdict /\ verdict.clock.t >= issued.at) =>
        (verdict.out = Return(TRUE)
            <=> verdict.clock.t - issued.at < 24 * 3600 - (issued.at % 3600))

C3_Witness ==
    /\ SameUserVerdict
    /\ issued.at % 3600 = 59 * 60
    /\ verdict.clock.t - issued.at = 23 * 3600
    /\ verdict.out = Return(TRUE)

\* C4: two calls of generate_token for the same user record at times in the
\* same hour bucket return the same token, and a call writes no state.
C4_BucketStability ==
    [][(/\ issued.called /\ issued'.called
        /\ issued' # issued
        /\ issued'.user = issued.user
        /\ issued'.at \div 3600 = issued.at \div 3600)
          => (/\ issued'.out = issued.out
              /\ ~issued'.out.exc
              /\ users' = users /\ now' = now /\ verdict' = verdict)]_vars

C4_Witness ==
    /\ issued.called /\ ~issued.out.exc
    /\ issued.since < issued.at

\* C6: a call of check_token in which an exception is raised returns False;
\* check_token never raises and leaves the users table as it was.
C6_FailurePolicy ==
    verdict.called =>
        /\ ~verdict.out.exc
        /\ verdict.out.val \in BOOLEAN
        /\ (~verdict.clock.ok \/ ~Encodable(verdict.user.email))
              => verdict.out = Return(FALSE)
        /\ users = InitialUsers

C6_Witness ==
    /\ verdict.called
    /\ ~verdict.clock.ok
    /\ verdict.out = Return(FALSE)

\* C9: a token issued for one user record is never accepted for a record
\* that differs from it in email or in id.
C9_CrossUserIsolation ==
    (/\ issued.called /\ ~issued.out.exc
     /\ verdict.called
     /\ verdict.token = issued.out.val
     /\ (verdict.user.email # issued.user.email \/ verdict.user.id # issued.user.id))
        => verdict.out = Return(FALSE)

====
